---- MODULE Spec2Model ----
(***************************************************************************)
(* A model of pumpfun_bot_improved.py: the configuration loader, the      *)
(* SQLAlchemy store (migrated_coins, tweets), the HTTP fetch helper       *)
(* make_request, decide_trade, the /status views and the main script.     *)
(***************************************************************************)
EXTENDS Integers, Sequences, FiniteSets, TLC

VARIABLES
    log,            \* the entries written through the logging module, in order
    url,            \* make_request: the URL of the call in progress (scheme, server)
    call_pc,        \* make_request: position of the call
    retries,        \* make_request: the Retry object of the adapter serving the call
    requests_sent,  \* make_request: GETs put on the wire by the call in progress
    response,       \* make_request: the last HTTP response received
    ret,            \* make_request: what the call returned
    calls,          \* make_request: calls completed so far
    migrated_coins, \* the rows of table migrated_coins
    tweets,         \* the rows of table tweets
    db_error,       \* what the last store operation raised ("none" if nothing)
    last_inserted,  \* id of the coin row the last successful coin insert made
    view,           \* which /status view is answering a request ("none" if neither)
    coins,          \* status / get_status: the rows its query returned
    config,         \* the configuration mapping (None until one is loaded)
    coin,           \* decide_trade: the coin of the last call (None before any)
    decide_raised,  \* decide_trade: what the last call raised ("none" if nothing)
    decisions,      \* decide_trade: calls made so far
    pc,             \* the main script: the statement it is at
    environ,        \* os.environ: variable name -> value (None when unset)
    dotenv_file,    \* the local .env file: name -> value (None when no file)
    config_file,    \* config.yaml as it is on disk
    config_content, \* load_config: the text after substitution
    exc,            \* the exception in flight or that ended the script
    store_ready,    \* setup_database() has returned its session
    bot_token,      \* config['telegram']['bot_token'] as read by the script
    polling,        \* updater.start_polling() has started the bot's threads
    server_up       \* app.run() is serving HTTP requests

fetchVars == <<url, call_pc, retries, requests_sent, response, ret, calls>>
storeVars == <<migrated_coins, tweets, db_error, last_inserted, view, coins>>
decideVars == <<config, coin, decide_raised, decisions>>
mainVars == <<pc, environ, dotenv_file, config_file, config_content, exc,
              store_ready, bot_token, polling, server_up>>
vars == <<log, fetchVars, storeVars, decideVars, mainVars>>

\* A nullable value: None is <<>>, a present value v is <<v>>.
None == <<>>
Some(v) == <<v>>

\* ------------------------------------------------------------------ bounds
MaxCalls == 2
MaxServerKinds == 2
MaxCoins == 6
MaxRefCoins == 2
MaxTweets == 2
MaxTime == 2
MaxDecideCoins == 1
MaxDecisions == 2
MaxScore == 2
MaxJobRuns == 2

\* ------------------------------------------------------------- make_request
\* Retry(total=5, ...)
RetryTotal == 5
\* Retry(..., status_forcelist=[500, 502, 503, 504])
status_forcelist == {500, 502, 503, 504}
\* urllib3.util.retry.Retry.RETRY_AFTER_STATUS_CODES, honoured because
\* respect_retry_after_header keeps its default, True
RETRY_AFTER_STATUS_CODES == {413, 429, 503}

Schemes == {"http", "https"}
Statuses == {200, 404, 413, 429, 501, 503}
\* A response is its status and whether it carries a Retry-After header.
Responses == [status : Statuses, retry_after : BOOLEAN]
\* A server is the set of responses it may give to a GET.
Servers == {srv \in SUBSET Responses : Cardinality(srv) \in 1..MaxServerKinds}
NoUrl == [scheme |-> "none", server |-> {}]
NoResponse == [status |-> 0, retry_after |-> FALSE]

\* session.mount('https://', HTTPAdapter(max_retries=retries)): the Retry
\* policy is mounted for https:// only; http:// keeps the session's default
\* adapter, whose max_retries is Retry(0, read=False) with no forcelist.
MountedRetry(scheme) ==
    IF scheme = "https"
    THEN [total |-> RetryTotal, forcelist |-> status_forcelist]
    ELSE [total |-> 0, forcelist |-> {}]

\* A policy that retries every 5xx answer.
is_retry_any_5xx(retry, r) ==
    \/ r.status >= 500
    \/ /\ retry.total # 0
       /\ r.retry_after
       /\ r.status \in RETRY_AFTER_STATUS_CODES

\* Retry.is_retry for a GET: a forcelist status, or a Retry-After answer
\* while retries remain.
is_retry(retry, r) ==
    \/ r.status \in retry.forcelist
    \/ /\ retry.total # 0
       /\ r.retry_after
       /\ r.status \in RETRY_AFTER_STATUS_CODES

ErrorEntry == [level |-> "ERROR", msg |-> "Error making request"]

\* make_request(url): a fresh Session and Retry per call (lines 75-77).
make_request_call ==
    /\ call_pc \in {"idle", "returned"}
    /\ calls < MaxCalls
    /\ \E s \in Schemes, srv \in Servers :
         /\ url' = [scheme |-> s, server |-> srv]
         /\ retries' = MountedRetry(s)
    /\ call_pc' = "get"
    /\ requests_sent' = 0
    /\ response' = NoResponse
    /\ ret' = "pending"
    /\ UNCHANGED <<log, calls, storeVars, decideVars, mainVars>>

\* The except branch: logging.error(...); return None (lines 82-84).
RequestExceptionCaught ==
    /\ log' = Append(log, ErrorEntry)
    /\ ret' = "None"
    /\ call_pc' = "returned"
    /\ calls' = calls + 1

\* One GET inside session.get (line 79) and what follows its response:
\* a retry (urlopen again after the backoff sleep), MaxRetryError when the
\* Retry is exhausted (requests raises RetryError), or the response handed
\* back to raise_for_status (line 80) and response.json() (line 81).
session_get ==
    /\ call_pc = "get"
    /\ \E r \in url.server :
         /\ response' = r
         /\ requests_sent' = requests_sent + 1
         /\ IF is_retry(retries, r)
            THEN IF retries.total - 1 < 0
                 THEN /\ RequestExceptionCaught
                      /\ UNCHANGED retries
                 ELSE /\ retries' = [retries EXCEPT !.total = @ - 1]
                      /\ UNCHANGED <<log, ret, call_pc, calls>>
            ELSE IF r.status >= 400
                 THEN /\ RequestExceptionCaught
                      /\ UNCHANGED retries
                 ELSE /\ ret' = "json"
                      /\ call_pc' = "returned"
                      /\ calls' = calls + 1
                      /\ UNCHANGED <<log, retries>>
    /\ UNCHANGED <<url, storeVars, decideVars, mainVars>>

FetchIdle ==
    /\ url = NoUrl
    /\ call_pc = "idle"
    /\ retries = MountedRetry("http")
    /\ requests_sent = 0
    /\ response = NoResponse
    /\ ret = "pending"
    /\ calls = 0

\* ------------------------------------------------------------------- store
\* .limit(5) of the /status views
StatusLimit == 5

Times == 1..MaxTime
Symbols == {"PUMP"}

Max(S) == CHOOSE x \in S : \A y \in S : y <= x
CoinIds == {c.id : c \in migrated_coins}
\* id = Column(Integer, primary_key=True): SQLite assigns max(rowid) + 1.
NextId(rows) == IF rows = {} THEN 1 ELSE Max({r.id : r \in rows}) + 1

\* create_engine(db_url) on the default sqlite:/// URL, with no
\* PRAGMA foreign_keys=ON issued on connect: SQLite parses the REFERENCES
\* clause of tweets.coin_id and does not enforce it.
foreign_keys == FALSE

\* session.add(MigratedCoin(...)); session.commit().  coin_symbol is NOT NULL;
\* migration_date is the value given, or utcnow when none is (a None is left
\* out of the INSERT, so the column default applies and no row holds NULL).
InsertCoin(limit, scores) ==
    /\ Cardinality(migrated_coins) < limit
    /\ view = "none"
    /\ \E sym \in {Some(x) : x \in Symbols} \cup {None}, d \in Times, sc \in scores :
         IF sym = None
         THEN /\ db_error' = "IntegrityError"
              /\ UNCHANGED <<migrated_coins, last_inserted>>
         ELSE /\ migrated_coins' = migrated_coins \cup
                    {[id |-> NextId(migrated_coins), coin_symbol |-> sym,
                      sentiment_score |-> sc, migration_date |-> d]}
              /\ last_inserted' = NextId(migrated_coins)
              /\ db_error' = "none"
    /\ UNCHANGED <<log, fetchVars, tweets, view, coins, decideVars, mainVars>>

\* Whether the store accepts a tweets row with this coin_id.
ReferenceAccepted(coin_id) ==
    foreign_keys => (coin_id = None \/ coin_id[1] \in CoinIds)

\* session.add(Tweet(coin_id=..., content=..., created_at=...)); session.commit().
\* coin_id is a nullable Integer column with ForeignKey('migrated_coins.id').
InsertTweet ==
    /\ Cardinality(tweets) < MaxTweets
    /\ \E cid \in {Some(i) : i \in 1..(MaxRefCoins + 1)} \cup {None}, d \in Times :
         IF ReferenceAccepted(cid)
         THEN /\ tweets' = tweets \cup
                    {[id |-> NextId(tweets), coin_id |-> cid, created_at |-> d]}
              /\ db_error' = "none"
         ELSE /\ db_error' = "IntegrityError"
              /\ UNCHANGED tweets
    /\ UNCHANGED <<log, fetchVars, migrated_coins, last_inserted, view, coins, decideVars, mainVars>>

\* The query ordered by migration_date ascending.
RECURSIVE OrderByDateAsc(_, _)
OrderByDateAsc(rows, n) ==
    IF rows = {} \/ n = 0
    THEN {<<>>}
    ELSE UNION {{<<c>> \o rest : rest \in OrderByDateAsc(rows \ {c}, n - 1)} :
                c \in {x \in rows :
                          \A y \in rows : x.migration_date <= y.migration_date}}

\* query(MigratedCoin).order_by(migration_date.desc()).limit(n).all(): every
\* sequence the query may return; rows of equal migration_date come in an
\* order SQL leaves open.
RECURSIVE OrderByDateDesc(_, _)
OrderByDateDesc(rows, n) ==
    IF rows = {} \/ n = 0
    THEN {<<>>}
    ELSE UNION {{<<c>> \o rest : rest \in OrderByDateDesc(rows \ {c}, n - 1)} :
                c \in {x \in rows :
                          \A y \in rows : y.migration_date <= x.migration_date}}

RecentCoins(rows) == OrderByDateDesc(rows, StatusLimit)

\* The query of a /status view, on its own session (lines 111-112, 137-138).
StatusQuery(v) ==
    /\ view = "none"
    /\ view' = v
    /\ coins' \in RecentCoins(migrated_coins)
    /\ UNCHANGED <<log, fetchVars, migrated_coins, tweets, db_error, last_inserted, decideVars, mainVars>>

\* The view answers (jsonify / reply_text) and its rows go out of scope.
StatusReply(v) ==
    /\ view = v
    /\ view' = "none"
    /\ coins' = <<>>
    /\ UNCHANGED <<log, fetchVars, migrated_coins, tweets, db_error, last_inserted, decideVars, mainVars>>

\* The /status route of the Flask app (lines 135-139).
get_status == StatusQuery("get_status") \/ StatusReply("get_status")

\* The /status command of the Telegram bot (lines 110-114): the same query.
status == StatusQuery("status") \/ StatusReply("status")

\* Base.metadata.create_all(engine) on a new database file: both tables empty.
StoreIdle ==
    /\ migrated_coins = {}
    /\ tweets = {}
    /\ db_error = "none"
    /\ last_inserted = 0
    /\ view = "none"
    /\ coins = <<>>

\* ------------------------------------------------------------ decide_trade
\* Sentiment scores and thresholds are floats; the model takes them on a
\* grid of MaxScore steps either side of zero.
Scores == (-MaxScore)..MaxScore
Thresholds == (-MaxScore)..MaxScore
TradingConfig(t) ==
    Some([trading |-> [risk_limit |-> 1, sentiment_threshold |-> t]])

\* The branches with the SELL test first.
ClassifySellFirst(sentiment_score, sentiment_threshold) ==
    IF sentiment_score <= -sentiment_threshold THEN "SELL"
    ELSE IF sentiment_score >= sentiment_threshold THEN "BUY"
    ELSE "HOLD"

\* The branch decide_trade takes (lines 98-103).
Classify(sentiment_score, sentiment_threshold) ==
    IF sentiment_score >= sentiment_threshold THEN "BUY"
    ELSE IF sentiment_score <= -sentiment_threshold THEN "SELL"
    ELSE "HOLD"

\* A decide_trade that records its decision on the coin row and commits.
decide_trade_writes_back ==
    /\ decisions < MaxDecisions
    /\ \E c \in migrated_coins :
         /\ coin' = Some(c)
         /\ IF c.sentiment_score = None
            THEN /\ decide_raised' = "TypeError"
                 /\ UNCHANGED <<log, migrated_coins>>
            ELSE /\ decide_raised' = "none"
                 /\ log' = Append(log,
                      [level |-> "INFO",
                       msg |-> Classify(c.sentiment_score[1],
                                        config[1].trading.sentiment_threshold),
                       coin_symbol |-> c.coin_symbol,
                       sentiment_score |-> c.sentiment_score[1]])
                 /\ migrated_coins' = (migrated_coins \ {c}) \cup
                        {[c EXCEPT !.migration_date = MaxTime + 1]}
    /\ decisions' = decisions + 1
    /\ UNCHANGED <<fetchVars, tweets, db_error, last_inserted, view, coins,
                   config, mainVars>>

\* decide_trade(coin, config, session) on a stored coin (lines 94-103).  A coin
\* whose sentiment_score is NULL makes the first comparison raise TypeError
\* (None >= float), before anything is logged.
decide_trade ==
    /\ decisions < MaxDecisions
    /\ \E c \in migrated_coins :
         /\ coin' = Some(c)
         /\ IF c.sentiment_score = None
            THEN /\ decide_raised' = "TypeError"
                 /\ UNCHANGED log
            ELSE /\ decide_raised' = "none"
                 /\ log' = Append(log,
                      [level |-> "INFO",
                       msg |-> Classify(c.sentiment_score[1],
                                        config[1].trading.sentiment_threshold),
                       coin_symbol |-> c.coin_symbol,
                       sentiment_score |-> c.sentiment_score[1]])
    /\ decisions' = decisions + 1
    /\ UNCHANGED <<fetchVars, storeVars, config, mainVars>>

DecideIdle ==
    /\ coin = None
    /\ decide_raised = "none"
    /\ decisions = 0

\* ------------------------------------------------------------- load_config
\* Texts are sequences of characters.  DQ is the double quote; "M", "T" and
\* "t" are word characters (\w); "$", "{", "}", "[" and DQ are not.
DQ == "\""
WordChars == {"M", "T", "t"}
MISSING_VAR == <<"M">>
TOKEN_VAR == <<"T">>
EnvNames == {MISSING_VAR, TOKEN_VAR}
EnvValues == {<<>>, <<"t">>, <<"[">>}
Environments == [EnvNames -> {None} \cup {Some(v) : v \in EnvValues}]

\* The raw text of the bot_token value in config.yaml
\* (telegram:\n  bot_token: <text>).
Templates ==
    { <<"$", "{", "M", "}">>,
      <<DQ, "$", "{", "M", "}", DQ>>,
      <<"$", "{", "T", "}">>,
      <<"t", "$", "{", "M", "}">>,
      <<"$", "{", "M", "T", "}">>,
      <<"$", "{", "M", "}", "$", "{", "T", "}">>,
      <<"$", "{", "}">>,
      <<DQ, "t">>,
      <<"t">> }
\* config.yaml: missing, an empty document, or the telegram mapping.
ConfigFiles ==
    {[kind |-> "missing", bot_token |-> <<>>],
     [kind |-> "empty", bot_token |-> <<>>]}
    \cup {[kind |-> "mapping", bot_token |-> t] : t \in Templates}

\* A lookup that leaves the placeholder of an unset variable in the text.
getenv_keep_placeholder(env, name) ==
    IF name \in DOMAIN env /\ env[name] # None
    THEN env[name][1]
    ELSE <<"$", "{">> \o name \o <<"}">>

\* os.getenv(name, '')
getenv(env, name) ==
    IF name \in DOMAIN env /\ env[name] # None THEN env[name][1] ELSE <<>>

\* The length of the run of word characters that starts at text[i].
RECURSIVE WordRun(_, _)
WordRun(text, i) ==
    IF i <= Len(text) /\ text[i] \in WordChars THEN 1 + WordRun(text, i + 1) ELSE 0

\* Whether the pattern \${(\w+)} matches at the head of text.
MatchesAtHead(text) ==
    /\ Len(text) >= 4
    /\ text[1] = "$"
    /\ text[2] = "{"
    /\ WordRun(text, 3) >= 1
    /\ 3 + WordRun(text, 3) <= Len(text)
    /\ text[3 + WordRun(text, 3)] = "}"

\* re.sub(r'\${(\w+)}', lambda match: os.getenv(match.group(1), ''), text):
\* left to right, the replacement text is not scanned again (line 27).
RECURSIVE Substitute(_, _)
Substitute(text, env) ==
    IF text = <<>> THEN <<>>
    ELSE IF MatchesAtHead(text)
    THEN LET n == WordRun(text, 3)
         IN getenv(env, SubSeq(text, 3, 2 + n))
              \o Substitute(SubSeq(text, 4 + n, Len(text)), env)
    ELSE <<text[1]>> \o Substitute(Tail(text), env)

\* yaml.safe_load of the value text of a block mapping entry (line 28), for a
\* text that does not open a flow mapping: nothing is null (None), a
\* double-quoted text is its inside, an opened flow sequence or an unclosed
\* quote is a YAMLError, anything else is a plain string.
ParseScalar(text) ==
    IF text = <<>> THEN [ok |-> TRUE, value |-> None]
    ELSE IF text[1] = DQ
    THEN IF /\ Len(text) >= 2
            /\ text[Len(text)] = DQ
            /\ \A i \in 2..(Len(text) - 1) : text[i] # DQ
         THEN [ok |-> TRUE, value |-> Some(SubSeq(text, 2, Len(text) - 1))]
         ELSE [ok |-> FALSE, value |-> None]
    ELSE IF text[1] = "["
    THEN [ok |-> FALSE, value |-> None]
    ELSE [ok |-> TRUE, value |-> Some(text)]

\* What yaml.safe_load returns for an empty document.
PyNone == [kind |-> "None"]
TelegramConfig(v) == [kind |-> "mapping", telegram |-> [bot_token |-> v]]

Info(m) == [level |-> "INFO", msg |-> m]
ConfigErrorEntry == [level |-> "ERROR", msg |-> "Failed to load configuration"]

\* setup_logging() (lines 37-44).
setup_logging ==
    /\ pc = "setup_logging"
    /\ log' = Append(log, Info("Logging is set up."))
    /\ pc' = "load_dotenv"
    /\ UNCHANGED <<fetchVars, storeVars, decideVars, environ, dotenv_file,
                   config_file, config_content, exc, store_ready, bot_token,
                   polling, server_up>>

\* load_dotenv(override=True): the file's values win.
load_dotenv_override(env, file) ==
    IF file = None THEN env
    ELSE [n \in EnvNames |-> IF file[1][n] # None THEN file[1][n] ELSE env[n]]

\* load_dotenv() (line 23): every variable of the .env file that os.environ
\* does not hold yet is added to os.environ (override=False).
load_dotenv(env, file) ==
    IF file = None THEN env
    ELSE [n \in EnvNames |-> IF env[n] # None THEN env[n] ELSE file[1][n]]

load_config_dotenv ==
    /\ pc = "load_dotenv"
    /\ environ' = load_dotenv(environ, dotenv_file)
    /\ pc' = "try"
    /\ UNCHANGED <<log, fetchVars, storeVars, decideVars, dotenv_file,
                   config_file, config_content, exc, store_ready, bot_token,
                   polling, server_up>>

\* The try block of load_config (lines 25-30): open and read, substitute,
\* parse, log, return; the first failure goes to the except clause.
load_config_try ==
    /\ pc = "try"
    /\ IF config_file.kind = "missing"
       THEN /\ exc' = "FileNotFoundError"
            /\ pc' = "except"
            /\ UNCHANGED <<log, config, config_content>>
       ELSE LET content == Substitute(config_file.bot_token, environ)
                parsed == ParseScalar(content)
            IN /\ config_content' = content
               /\ IF config_file.kind = "mapping" /\ ~parsed.ok
                  THEN /\ exc' = "YAMLError"
                       /\ pc' = "except"
                       /\ UNCHANGED <<log, config>>
                  ELSE /\ config' = IF config_file.kind = "empty"
                                    THEN Some(PyNone)
                                    ELSE Some(TelegramConfig(parsed.value))
                       /\ log' = Append(log, Info("Configuration loaded successfully."))
                       /\ pc' = "setup_database"
                       /\ UNCHANGED exc
    /\ UNCHANGED <<fetchVars, storeVars, coin, decide_raised, decisions, environ,
                   dotenv_file, config_file, store_ready, bot_token, polling,
                   server_up>>

\* except Exception as e: logging.error(...) (lines 31-32).
load_config_except ==
    /\ pc = "except"
    /\ log' = Append(log, ConfigErrorEntry)
    /\ pc' = "raise"
    /\ UNCHANGED <<fetchVars, storeVars, decideVars, environ, dotenv_file,
                   config_file, config_content, exc, store_ready, bot_token,
                   polling, server_up>>

\* An except clause that falls through and returns no configuration.
load_config_swallow ==
    /\ pc = "raise"
    /\ pc' = "setup_database"
    /\ config' = Some(PyNone)
    /\ UNCHANGED <<log, fetchVars, storeVars, coin, decide_raised, decisions,
                   environ, dotenv_file, config_file, config_content, exc,
                   store_ready, bot_token, polling, server_up>>

\* raise (line 33): no handler at line 145, so the script ends.
load_config_raise ==
    /\ pc = "raise"
    /\ pc' = "aborted"
    /\ UNCHANGED <<log, fetchVars, storeVars, decideVars, environ, dotenv_file,
                   config_file, config_content, exc, store_ready, bot_token,
                   polling, server_up>>

\* --------------------------------------------------------------- __main__
\* session = setup_database() (line 146).
setup_database ==
    /\ pc = "setup_database"
    /\ store_ready' = TRUE
    /\ pc' = "bot_token"
    /\ UNCHANGED <<log, fetchVars, storeVars, decideVars, environ, dotenv_file,
                   config_file, config_content, exc, bot_token, polling, server_up>>

\* bot_token = config['telegram']['bot_token'] (line 147): subscripting None
\* raises TypeError.
read_bot_token ==
    /\ pc = "bot_token"
    /\ IF config[1] = PyNone
       THEN /\ exc' = "TypeError"
            /\ pc' = "aborted"
            /\ UNCHANGED bot_token
       ELSE /\ bot_token' = config[1].telegram.bot_token
            /\ pc' = "setup_telegram_bot"
            /\ UNCHANGED exc
    /\ UNCHANGED <<log, fetchVars, storeVars, decideVars, environ, dotenv_file,
                   config_file, config_content, store_ready, polling, server_up>>

\* setup_telegram_bot(bot_token) (lines 122-130): Updater refuses a token
\* that is None or empty; any other text stands for a well-formed token.
setup_telegram_bot ==
    /\ pc = "setup_telegram_bot"
    /\ IF bot_token = None \/ bot_token = Some(<<>>)
       THEN /\ exc' = "InvalidToken"
            /\ pc' = "aborted"
            /\ UNCHANGED polling
       ELSE /\ polling' = TRUE
            /\ pc' = "app_run"
            /\ UNCHANGED exc
    /\ UNCHANGED <<log, fetchVars, storeVars, decideVars, environ, dotenv_file,
                   config_file, config_content, store_ready, bot_token, server_up>>

\* app.run(debug=True, port=5000) (line 149): the call starts the server and
\* does not return while the server is serving.
app_run ==
    /\ pc = "app_run"
    /\ server_up' = TRUE
    /\ pc' = "serving"
    /\ UNCHANGED <<log, fetchVars, storeVars, decideVars, environ, dotenv_file,
                   config_file, config_content, exc, store_ready, bot_token, polling>>

\* The server is stopped from outside (Ctrl-C, a signal): app.run returns to
\* line 151, or the process ends there.
server_stop ==
    /\ pc = "serving"
    /\ server_up' = FALSE
    /\ pc' \in {"loop", "exited"}
    /\ UNCHANGED <<log, fetchVars, storeVars, decideVars, environ, dotenv_file,
                   config_file, config_content, exc, store_ready, bot_token, polling>>

JobEntry == Info("Running scheduled jobs...")
JobRuns == Cardinality({i \in 1..Len(log) : log[i] = JobEntry})

\* One iteration of while True (lines 151-153).
job_loop ==
    /\ pc = "loop"
    /\ JobRuns < MaxJobRuns
    /\ log' = Append(log, JobEntry)
    /\ UNCHANGED <<fetchVars, storeVars, decideVars, mainVars>>

\* A GET /status handled by the Flask server.
http_request == server_up /\ get_status

\* A /status command handled by the bot's polling threads.
telegram_update == polling /\ status

MainThread ==
    \/ setup_logging
    \/ load_config_dotenv
    \/ load_config_try
    \/ load_config_except
    \/ load_config_raise
    \/ setup_database
    \/ read_bot_token
    \/ setup_telegram_bot
    \/ app_run
    \/ job_loop

MainIdle ==
    /\ pc = "setup_logging"
    /\ environ = [n \in EnvNames |-> None]
    /\ dotenv_file = None
    /\ config_file = [kind |-> "missing", bot_token |-> <<>>]
    /\ config_content = <<>>
    /\ exc = "none"
    /\ store_ready = FALSE
    /\ bot_token = None
    /\ polling = FALSE
    /\ server_up = FALSE

\* ---------------------------------------------------------- specifications
FetchInit == log = <<>> /\ FetchIdle /\ StoreIdle /\ DecideIdle /\ MainIdle /\ config = None
FetchNext == make_request_call \/ session_get
SpecFetch == FetchInit /\ [][FetchNext]_vars

StoreInit == log = <<>> /\ FetchIdle /\ StoreIdle /\ DecideIdle /\ MainIdle /\ config = None
StoreNext == InsertCoin(MaxRefCoins, {None}) \/ InsertTweet
SpecStore == StoreInit /\ [][StoreNext]_vars

StatusInit == log = <<>> /\ FetchIdle /\ StoreIdle /\ DecideIdle /\ MainIdle /\ config = None
StatusNext == InsertCoin(MaxCoins, {None}) \/ get_status \/ status
SpecStatus == StatusInit /\ [][StatusNext]_vars

\* The store a decision runs against holds coins with and without a score
\* and possibly a post; the threshold is any configured value.
DecideInit ==
    /\ log = <<>>
    /\ FetchIdle
    /\ DecideIdle
    /\ MainIdle
    /\ migrated_coins = {}
    /\ tweets \in {{}, {[id |-> 1, coin_id |-> Some(1), created_at |-> 1]}}
    /\ db_error = "none"
    /\ last_inserted = 0
    /\ view = "none"
    /\ coins = <<>>
    /\ \E t \in Thresholds : config = TradingConfig(t)
DecideNext ==
    \/ InsertCoin(MaxDecideCoins, {Some(x) : x \in Scores} \cup {None})
    \/ decide_trade
SpecDecide == DecideInit /\ [][DecideNext]_vars

\* The script started in any environment, with or without a .env file, on
\* any config.yaml.
MainInit ==
    /\ log = <<>>
    /\ FetchIdle
    /\ StoreIdle
    /\ DecideIdle
    /\ config = None
    /\ pc = "setup_logging"
    /\ environ \in Environments
    /\ dotenv_file \in {None} \cup {Some(f) : f \in Environments}
    /\ config_file \in ConfigFiles
    /\ config_content = <<>>
    /\ exc = "none"
    /\ store_ready = FALSE
    /\ bot_token = None
    /\ polling = FALSE
    /\ server_up = FALSE
MainNext == MainThread \/ server_stop \/ http_request \/ telegram_update
SpecMain == MainInit /\ [][MainNext]_vars
\* The interpreter keeps running the main thread, and a view that has run
\* its query goes on to answer.
FairSpecMain ==
    /\ SpecMain
    /\ WF_vars(MainThread)
    /\ WF_vars(StatusReply("get_status"))
    /\ WF_vars(StatusReply("status"))

\* ------------------------------------------------------------------ claims
Returned == call_pc = "returned"
LastLog == IF log = <<>> THEN [level |-> "none", msg |-> "none"] ELSE log[Len(log)]

\* C1: a call on a URL of any scheme whose server answers every GET with 503
\* sends exactly 5 requests and then returns None.
C1_Always503SendsFiveRequests ==
    (Returned /\ \A r \in url.server : r.status = 503)
        => (requests_sent = 5 /\ ret = "None")

\* C2: no state holds a tweets row whose coin_id is not the id of a
\* migrated_coins row: an insert of such a row is rejected and changes nothing.
C2_PostsReferenceExistingCoins ==
    \A t \in tweets : t.coin_id # None => t.coin_id[1] \in CoinIds

\* C3: every decision logged for a score s under threshold t is BUY when
\* s >= t, SELL when s < t and s <= -t, and HOLD otherwise; so s = t is BUY
\* (also at s = t = 0) and s = -t with t > 0 is SELL.
C3_DecisionMatchesThresholds ==
    \A i \in 1..Len(log) :
        LET s == log[i].sentiment_score
            t == config[1].trading.sentiment_threshold
        IN /\ log[i].msg \in {"BUY", "SELL", "HOLD"}
           /\ (s >= t) => log[i].msg = "BUY"
           /\ (s < t /\ s <= -t) => log[i].msg = "SELL"
           /\ (s < t /\ s > -t) => log[i].msg = "HOLD"
           /\ (s = t) => log[i].msg = "BUY"
           /\ (s = -t /\ t > 0) => log[i].msg = "SELL"

\* A decision on the tie s = t = 0 has been logged, as BUY.
C3_Witness ==
    /\ config[1].trading.sentiment_threshold = 0
    /\ \E i \in 1..Len(log) : log[i].sentiment_score = 0 /\ log[i].msg = "BUY"

DecideStep == decisions' # decisions
DecideFrame ==
    /\ migrated_coins' = migrated_coins
    /\ tweets' = tweets
    /\ config' = config
    /\ coin'[1] \in migrated_coins'

StrictlyNewest(id) ==
    \E c \in migrated_coins :
        /\ c.id = id
        /\ \A o \in migrated_coins \ {c} : o.migration_date < c.migration_date
Min(a, b) == IF a <= b THEN a ELSE b

\* C5: the rows a /status view gets are at most 5 (the 5 newest when the
\* table holds more), in descending order of migration_date, and when the
\* coin inserted last is strictly the newest row it is the first of them.
C5_NewestInsertedComesFirst ==
    view # "none" =>
        /\ Len(coins) = Min(StatusLimit, Cardinality(migrated_coins))
        /\ \A i \in 1..Len(coins) : coins[i] \in migrated_coins
        /\ \A i, j \in 1..Len(coins) :
               i < j => /\ coins[i] # coins[j]
                        /\ coins[i].migration_date >= coins[j].migration_date
        /\ \A c \in migrated_coins :
               (\A i \in 1..Len(coins) : coins[i] # c) =>
                   \A i \in 1..Len(coins) : coins[i].migration_date >= c.migration_date
        /\ StrictlyNewest(last_inserted) => coins[1].id = last_inserted

\* A view queried a table of more than 5 rows whose last insert is the newest.
C5_Witness ==
    /\ view # "none"
    /\ Cardinality(migrated_coins) > StatusLimit
    /\ Len(coins) = StatusLimit
    /\ StrictlyNewest(last_inserted)
    /\ coins[1].id = last_inserted

PastLoad == pc \notin {"setup_logging", "load_dotenv", "try"}
LoadedNormally ==
    /\ PastLoad
    /\ config # None
    /\ \E i \in 1..Len(log) : log[i] = Info("Configuration loaded successfully.")
UnquotedMissing == <<"$", "{", "M", "}">>
QuotedMissing == <<DQ, "$", "{", "M", "}", DQ>>
MissingUnset(raw) ==
    /\ PastLoad
    /\ config_file.kind = "mapping"
    /\ config_file.bot_token = raw
    /\ environ[MISSING_VAR] = None
ContainsPlaceholder(text) ==
    \E i \in 1..Len(text) : MatchesAtHead(SubSeq(text, i, Len(text)))

\* C6 as stated: with the value ${MISSING_VAR} and MISSING_VAR unset,
\* load_config returns normally and the field holds the empty string.
C6_MissingVarIsEmptyString ==
    MissingUnset(UnquotedMissing) =>
        (LoadedNormally /\ config[1].telegram.bot_token = Some(<<>>))

\* C6 amended: with the value ${MISSING_VAR} and MISSING_VAR unset (in the
\* OS environment and the .env file), load_config returns normally; the
\* placeholder becomes empty text, so the field is None (YAML null) when the
\* placeholder stands unquoted and the empty string when it stands in double
\* quotes; and no ${NAME} occurrence is left in the text that is parsed.
C6_MissingVarIsEmptyText ==
    /\ MissingUnset(UnquotedMissing) =>
           /\ LoadedNormally
           /\ config_content = <<>>
           /\ config[1].telegram.bot_token = None
    /\ MissingUnset(QuotedMissing) =>
           /\ LoadedNormally
           /\ config_content = <<DQ, DQ>>
           /\ config[1].telegram.bot_token = Some(<<>>)
    /\ (PastLoad /\ config_file.kind = "mapping") =>
           /\ ~ContainsPlaceholder(config_content)
           /\ config_file.bot_token = <<"$", "{", "T", "}">> =>
                  config_content = IF environ[TOKEN_VAR] = None
                                   THEN <<>> ELSE environ[TOKEN_VAR][1]

\* load_config returned a configuration whose bot_token, written
\* ${MISSING_VAR} with MISSING_VAR unset, is None.
C6_Witness ==
    /\ MissingUnset(UnquotedMissing)
    /\ LoadedNormally
    /\ config[1].telegram.bot_token = None

ConfigErrors == {"FileNotFoundError", "YAMLError"}
Unloadable ==
    \/ config_file.kind = "missing"
    \/ /\ config_file.kind = "mapping"
       /\ ~ParseScalar(Substitute(config_file.bot_token, environ)).ok

\* C7: when config.yaml cannot be read or cannot be parsed after
\* substitution, load_config logs the failure before it raises and returns
\* no configuration, and the script ends there: the store is never
\* initialized, the bot and the HTTP server never start, no job runs.
C7_ConfigFailureIsFatal ==
    /\ (PastLoad /\ Unloadable) =>
           /\ pc \in {"except", "raise", "aborted"}
           /\ exc \in ConfigErrors
    /\ (pc \in {"except", "raise", "aborted"} /\ exc \in ConfigErrors) =>
           /\ Unloadable
           /\ config = None
           /\ ~store_ready
           /\ bot_token = None
           /\ ~polling
           /\ ~server_up
           /\ JobRuns = 0
    /\ (pc \in {"raise", "aborted"} /\ exc \in ConfigErrors) =>
           LastLog = ConfigErrorEntry

\* The script has ended on a configuration that does not parse.
C7_Witness ==
    /\ pc = "aborted"
    /\ exc = "YAMLError"
    /\ LastLog = ConfigErrorEntry

\* C8 as stated: no step of load_config changes the process environment.
C8_EnvironmentNeverChanges == [][environ' = environ]_vars

\* C8 amended: load_config never changes or removes a variable that is set;
\* its load_dotenv() adds each variable of the .env file that was unset, with
\* the file's value, and nothing else in the environment changes.
C8_OnlyUnsetDotenvVariablesAreAdded ==
    [][\A n \in EnvNames :
          environ'[n] = IF environ[n] # None THEN environ[n]
                        ELSE IF pc = "load_dotenv" /\ dotenv_file # None
                        THEN dotenv_file[1][n]
                        ELSE None]_vars

\* load_config has returned with one variable kept from the OS environment,
\* against the .env file, and the other taken from the .env file.
C8_Witness ==
    /\ LoadedNormally
    /\ dotenv_file # None
    /\ dotenv_file[1][MISSING_VAR] = Some(<<>>)
    /\ environ[MISSING_VAR] = Some(<<"t">>)
    /\ dotenv_file[1][TOKEN_VAR] = Some(<<"t">>)
    /\ environ[TOKEN_VAR] = Some(<<"t">>)
    /\ config_file.bot_token = <<"$", "{", "T", "}">>

NonRetryError(r) == r.status >= 400 /\ r.status \notin status_forcelist
RetryAfterAnswer(r) == r.retry_after /\ r.status \in RETRY_AFTER_STATUS_CODES

\* C9 as stated: a call whose server answers only error statuses outside
\* the retry list sends one request, logs the error and returns None.
C9_OtherErrorsSendOneRequest ==
    (Returned /\ \A r \in url.server : NonRetryError(r)) =>
        /\ requests_sent = 1
        /\ ret = "None"
        /\ LastLog = ErrorEntry

\* C9 amended: such a call logs the error and returns None; it sends one
\* request, unless the URL is https and an answer is a 413 or 429 that
\* carries Retry-After, which the mounted Retry retries (6 requests at most);
\* every call starts from a fresh Retry, whatever the calls before it did.
C9_OtherErrorsReturnNone ==
    /\ (Returned /\ \A r \in url.server : NonRetryError(r)) =>
           /\ ret = "None"
           /\ LastLog = ErrorEntry
           /\ requests_sent <= RetryTotal + 1
           /\ (url.scheme = "http" \/ \A r \in url.server : ~RetryAfterAnswer(r))
                  => requests_sent = 1
    /\ call_pc = "get" =>
           retries.total = MountedRetry(url.scheme).total - requests_sent
    /\ Len(log) <= calls

\* A second call has failed on a 404 after an earlier call failed too.
C9_Witness ==
    /\ Returned
    /\ calls = 2
    /\ Len(log) = 2
    /\ url.scheme = "https"
    /\ url.server = {[status |-> 404, retry_after |-> FALSE]}
    /\ requests_sent = 1
    /\ ret = "None"

\* C10: once app.run has started the HTTP server, the job loop eventually
\* runs an iteration while the server is still serving.
C10_JobLoopRunsWhileServing == (pc = "serving") ~> (server_up /\ JobRuns > 0)

====
